---- MODULE Spec2Model ----
(***************************************************************************)
(* Model of deleteEmails.js: the quota counters (updateQuotaMetrics /      *)
(* canMakeRequest), the retry wrapper (executeWithBackoff), the archiver   *)
(* (archiveEmail) and the pagination loop (deleteOldEmails), run against a *)
(* stub mail provider that serves a fixed sequence of pages and may answer *)
(* any invocation with a rate-limit error (code 429) or another error.     *)
(* Time is in milliseconds; the clock moves when the program sleeps.       *)
(***************************************************************************)
EXTENDS Integers, Sequences, FiniteSets, TLC

VARIABLES
    QUOTA_METRICS,   \* [requestsPerDay, requestsPerMin, lastMinuteReset]
    now,             \* Date.now(), relative to the load of the script
    deleteOnly,      \* argv['delete-only']
    pages,           \* the provider: pages[p] is the number of messages of page p
    rlLeft,          \* how many more 429 answers the provider may give
    pc,              \* position of deleteOldEmails
    ex,              \* the executeWithBackoff call in progress
    nextPageToken,
    totalDeleted,
    batchCount,
    messages,        \* ids of the page being processed
    k,               \* index of the archive loop in messages
    lastCan,         \* value returned by the latest canMakeRequest call
    failures,        \* number of operation invocations that failed so far
    trace            \* remote calls, file writes, sleeps and console reports, in order

vars == <<QUOTA_METRICS, now, deleteOnly, pages, rlLeft, pc, ex, nextPageToken,
          totalDeleted, batchCount, messages, k, lastCan, failures, trace>>

(* ------------------------------ bounds --------------------------------- *)
MaxPages == 2          \* pages served by the provider in the small runs
MaxMsgs == 1           \* messages per page in the small runs
MaxRateLimited == 3    \* 429 answers the provider gives in the small runs
LoadSize == 250        \* messages of the big page of the loaded run
MaxOver == 2           \* canMakeRequest calls past the per-minute ceiling (quota harness)
MaxTicks == 4          \* clock ticks of the quota harness
DayMargin == 3         \* distance to the daily ceiling of the aged quota harness
TickMs == 30000        \* length of one clock tick of the quota harness, in ms
QuotaMargin == 3       \* calls left in the minute when the executor harness starts
MaxExecEvents == 4     \* trace length after which the executor harness makes no new call

(* ------------------------- program constants --------------------------- *)
MINUTE_MS == 60000
DAILY_QUOTA == 1000000
PER_MIN_QUOTA == 250
QUOTA_DELAY == 60000
BACKOFF_BASE == 1000
BATCH_DELAY_Short == BACKOFF_BASE * 2
BATCH_DELAY == 20000
RETRIES == 3
BATCH_SIZE == 1000

NoToken == 0
RateLimitCode == "429"
RemoteErrorCode == "500"
IOErrorCode == "ENOSPC"

Undefined == [kind |-> "undefined", messages |-> <<>>, nextPageToken |-> NoToken]

(* ------------------------------ helpers -------------------------------- *)
RECURSIVE Pow(_, _)
Pow(b, e) == IF e = 0 THEN 1 ELSE b * Pow(b, e - 1)

Event(op, arg) == [op |-> op, arg |-> arg, t |-> now]

(* The provider's stub: ids are unique over the run. *)
MessageId(p, j) == (p - 1) * BATCH_SIZE + j

PageIds(p) == [j \in 1..pages[p] |-> MessageId(p, j)]

PageOf(token) == IF token = NoToken THEN 1 ELSE token

ListResponse(token) ==
    LET p == PageOf(token)
    IN [kind |-> "page",
        messages |-> PageIds(p),
        nextPageToken |-> IF p < Len(pages) THEN p + 1 ELSE NoToken]

(* ---------------------------- Quota Tracker ---------------------------- *)
updateQuotaMetrics_StrictWindow(q, t) ==
    LET r == IF t - q.lastMinuteReset > MINUTE_MS
             THEN [q EXCEPT !.requestsPerMin = 0, !.lastMinuteReset = t]
             ELSE q
    IN [r EXCEPT !.requestsPerDay = @ + 1, !.requestsPerMin = @ + 1]

updateQuotaMetrics(q, t) ==
    LET r == IF t - q.lastMinuteReset >= MINUTE_MS
             THEN [q EXCEPT !.requestsPerMin = 0, !.lastMinuteReset = t]
             ELSE q
    IN [r EXCEPT !.requestsPerDay = @ + 1, !.requestsPerMin = @ + 1]

withinQuota_Inclusive(q) ==
    q.requestsPerDay <= DAILY_QUOTA /\ q.requestsPerMin <= PER_MIN_QUOTA

withinQuota(q) ==
    q.requestsPerDay < DAILY_QUOTA /\ q.requestsPerMin < PER_MIN_QUOTA

(* canMakeRequest(): the counters after the call, and the value returned *)
canMakeRequest(q, t) ==
    LET u == updateQuotaMetrics(q, t)
    IN [metrics |-> u, ret |-> withinQuota(u)]

(* --------------------------- Backoff Executor -------------------------- *)
(* hist, waits, pauses and from record what the call has done so far: the outcome
   of each invocation, each backoff wait, the quota pauses, and the length of the
   trace when the call started. *)
IdleEx == [pc |-> "idle", op |-> "none", arg |-> <<>>, i |-> 0,
           hist |-> <<>>, waits |-> <<>>, pauses |-> 0, from |-> 0,
           result |-> Undefined, error |-> "none"]

StartEx(op, arg) ==
    [IdleEx EXCEPT !.pc = "check", !.op = op, !.arg = arg, !.from = Len(trace)]

isRateLimit_AnyRemote(code) == code \in {RateLimitCode, RemoteErrorCode}

isRateLimit(code) == code = RateLimitCode

waitTime_OffByOne(i) == Pow(2, i + 1) * BACKOFF_BASE

waitTime(i) == Pow(2, i) * BACKOFF_BASE

afterBackoff_SkipCheck(e) ==
    IF e.i + 1 < RETRIES
    THEN [e EXCEPT !.pc = "invoke", !.i = @ + 1]
    ELSE [e EXCEPT !.pc = "returned", !.i = @ + 1, !.result = Undefined]

(* for (...; i < retries; ...) after `continue` *)
afterBackoff(e) ==
    IF e.i + 1 < RETRIES
    THEN [e EXCEPT !.pc = "check", !.i = @ + 1]
    ELSE [e EXCEPT !.pc = "returned", !.i = @ + 1, !.result = Undefined]

(* catch (error) of executeWithBackoff *)
onError(e, code) ==
    IF isRateLimit(code)
    THEN [e EXCEPT !.pc = "backoff", !.error = code]
    ELSE [e EXCEPT !.pc = "threw", !.error = code]

ExCheck ==
    /\ ex.pc = "check"
    /\ LET c == canMakeRequest(QUOTA_METRICS, now)
       IN /\ QUOTA_METRICS' = c.metrics
          /\ lastCan' = c.ret
          /\ ex' = [ex EXCEPT !.pc = IF c.ret THEN "invoke" ELSE "quotaWait"]
    /\ UNCHANGED <<now, deleteOnly, pages, rlLeft, pc, nextPageToken, totalDeleted,
                   batchCount, messages, k, failures, trace>>

afterQuotaWait_NextAttempt(e) ==
    [e EXCEPT !.pc = "check", !.i = @ + 1, !.pauses = @ + 1]

(* after await delay(60000) the same iteration goes on to operation() *)
afterQuotaWait(e) == [e EXCEPT !.pc = "invoke", !.pauses = @ + 1]

ExQuotaWait ==
    /\ ex.pc = "quotaWait"
    /\ now' = now + QUOTA_DELAY
    /\ trace' = Append(trace, Event("delay", <<QUOTA_DELAY>>))
    /\ ex' = afterQuotaWait(ex)
    /\ UNCHANGED <<QUOTA_METRICS, deleteOnly, pages, rlLeft, pc, nextPageToken,
                   totalDeleted, batchCount, messages, k, lastCan, failures>>

RemoteOp(op) == IF op = "archive" THEN "get" ELSE op

(* what the operation resolves to: the list response, the batchDelete response,
   nothing for archiveEmail *)
OpResult(op, arg) ==
    IF op = "list" THEN ListResponse(arg[1])
    ELSE IF op = "batchDelete" THEN [Undefined EXCEPT !.kind = "response"]
    ELSE Undefined

(* return await operation(): the operation succeeds *)
InvokeOk ==
    /\ ex.pc = "invoke"
    /\ trace' = IF ex.op = "archive"
                THEN trace \o <<Event("get", ex.arg), Event("write", ex.arg)>>
                ELSE Append(trace, Event(ex.op, ex.arg))
    /\ ex' = [ex EXCEPT !.pc = "returned",
                        !.hist = Append(@, "ok"),
                        !.result = OpResult(ex.op, ex.arg)]
    /\ UNCHANGED <<QUOTA_METRICS, now, deleteOnly, pages, rlLeft, pc, nextPageToken,
                   totalDeleted, batchCount, messages, k, lastCan, failures>>

(* the remote call of the operation is answered with 429 *)
InvokeRateLimited ==
    /\ ex.pc = "invoke"
    /\ rlLeft > 0
    /\ rlLeft' = rlLeft - 1
    /\ trace' = Append(trace, Event(RemoteOp(ex.op), ex.arg))
    /\ ex' = [onError(ex, RateLimitCode) EXCEPT !.hist = Append(@, RateLimitCode)]
    /\ failures' = failures + 1
    /\ UNCHANGED <<QUOTA_METRICS, now, deleteOnly, pages, pc, nextPageToken,
                   totalDeleted, batchCount, messages, k, lastCan>>

(* the remote call of the operation fails with another error *)
InvokeRemoteError ==
    /\ ex.pc = "invoke"
    /\ trace' = Append(trace, Event(RemoteOp(ex.op), ex.arg))
    /\ ex' = [onError(ex, RemoteErrorCode) EXCEPT !.hist = Append(@, RemoteErrorCode)]
    /\ failures' = failures + 1
    /\ UNCHANGED <<QUOTA_METRICS, now, deleteOnly, pages, rlLeft, pc, nextPageToken,
                   totalDeleted, batchCount, messages, k, lastCan>>

(* archiveEmail: the message is fetched, fs.writeFileSync throws *)
InvokeWriteError ==
    /\ ex.pc = "invoke"
    /\ ex.op = "archive"
    /\ trace' = Append(trace, Event("get", ex.arg))
    /\ ex' = [onError(ex, IOErrorCode) EXCEPT !.hist = Append(@, IOErrorCode)]
    /\ failures' = failures + 1
    /\ UNCHANGED <<QUOTA_METRICS, now, deleteOnly, pages, rlLeft, pc, nextPageToken,
                   totalDeleted, batchCount, messages, k, lastCan>>

ExBackoff ==
    /\ ex.pc = "backoff"
    /\ now' = now + waitTime(ex.i)
    /\ trace' = Append(trace, Event("delay", <<waitTime(ex.i)>>))
    /\ ex' = afterBackoff([ex EXCEPT !.waits = Append(@, waitTime(ex.i))])
    /\ UNCHANGED <<QUOTA_METRICS, deleteOnly, pages, rlLeft, pc, nextPageToken,
                   totalDeleted, batchCount, messages, k, lastCan, failures>>

(* --------------------- deleteOldEmails: the batch loop ----------------- *)
exVars == <<QUOTA_METRICS, now, deleteOnly, pages, rlLeft, lastCan, failures>>

(* if (messages.length > 0) { if (!argv['delete-only']) ... } *)
pageBranch_AlwaysArchive(msgs) == IF Len(msgs) > 0 THEN "archive" ELSE "while"

pageBranch_NoEmptyTest(msgs) == IF deleteOnly THEN "delete" ELSE "archive"

pageBranch(msgs) ==
    IF Len(msgs) > 0
    THEN (IF deleteOnly THEN "delete" ELSE "archive")
    ELSE "while"

(* while (nextPageToken) *)
loopContinues_Never(tok) == FALSE

loopContinues(tok) == tok # NoToken

listRequest_NoToken(tok) == <<NoToken>>

(* pageToken: nextPageToken of the list request *)
listRequest(tok) == <<tok>>

messageIds_First(msgs) == <<msgs[1]>>

(* const messageIds = messages.map(message => message.id) *)
messageIds(msgs) == msgs

addDeleted_BatchSize(total, ids) == total + BATCH_SIZE

(* totalDeleted += messageIds.length *)
addDeleted(total, ids) == total + Len(ids)

catchTarget_Continue == "while"

(* the catch block is the last statement of deleteOldEmails *)
catchTarget == "error"

(* executeWithBackoff(() => gmail.users.messages.list({... pageToken})) *)
CallList ==
    /\ pc = "list"
    /\ ex.pc = "idle"
    /\ ex' = StartEx("list", listRequest(nextPageToken))
    /\ pc' = "awaitList"
    /\ UNCHANGED <<exVars, nextPageToken, totalDeleted, batchCount, messages, k, trace>>

(* const messages = res.data.messages || []; nextPageToken = res.data.nextPageToken *)
ListReturned ==
    /\ pc = "awaitList"
    /\ ex.pc = "returned"
    /\ ex' = IdleEx
    /\ IF ex.result.kind = "undefined"
       THEN \* res is undefined: res.data throws a TypeError, caught at the bottom
            /\ pc' = catchTarget
            /\ trace' = Append(trace, Event("error", <<>>))
            /\ UNCHANGED <<messages, nextPageToken, k>>
       ELSE /\ messages' = ex.result.messages
            /\ nextPageToken' = ex.result.nextPageToken
            /\ k' = 1
            /\ pc' = pageBranch(ex.result.messages)
            /\ UNCHANGED trace
    /\ UNCHANGED <<exVars, totalDeleted, batchCount>>

(* for (const message of messages) executeWithBackoff(() => archiveEmail(...)) *)
CallArchive ==
    /\ pc = "archive"
    /\ k <= Len(messages)
    /\ ex.pc = "idle"
    /\ ex' = StartEx("archive", <<messages[k]>>)
    /\ pc' = "awaitArchive"
    /\ UNCHANGED <<exVars, nextPageToken, totalDeleted, batchCount, messages, k, trace>>

ArchiveReturned ==
    /\ pc = "awaitArchive"
    /\ ex.pc = "returned"
    /\ ex' = IdleEx
    /\ k' = k + 1
    /\ pc' = "archive"
    /\ UNCHANGED <<exVars, nextPageToken, totalDeleted, batchCount, messages, trace>>

(* the for loop has gone through the page *)
ArchiveDone ==
    /\ pc = "archive"
    /\ k > Len(messages)
    /\ pc' = "delete"
    /\ UNCHANGED <<exVars, ex, nextPageToken, totalDeleted, batchCount, messages, k,
                   trace>>

(* executeWithBackoff(() => gmail.users.messages.batchDelete({ids: messageIds})) *)
CallDelete ==
    /\ pc = "delete"
    /\ ex.pc = "idle"
    /\ ex' = StartEx("batchDelete", messageIds(messages))
    /\ pc' = "awaitDelete"
    /\ UNCHANGED <<exVars, nextPageToken, totalDeleted, batchCount, messages, k, trace>>

(* totalDeleted += messageIds.length; batchCount++; the two progress lines *)
DeleteReturned ==
    /\ pc = "awaitDelete"
    /\ ex.pc = "returned"
    /\ ex' = IdleEx
    /\ totalDeleted' = addDeleted(totalDeleted, messageIds(messages))
    /\ batchCount' = batchCount + 1
    /\ trace' = Append(trace, Event("report",
                       <<batchCount + 1, Len(messageIds(messages)),
                         addDeleted(totalDeleted, messageIds(messages))>>))
    /\ pc' = "cooldown"
    /\ UNCHANGED <<exVars, nextPageToken, messages, k>>

(* await delay(20000) *)
Cooldown ==
    /\ pc = "cooldown"
    /\ now' = now + BATCH_DELAY
    /\ trace' = Append(trace, Event("delay", <<BATCH_DELAY>>))
    /\ pc' = "while"
    /\ UNCHANGED <<QUOTA_METRICS, deleteOnly, pages, rlLeft, ex, nextPageToken,
                   totalDeleted, batchCount, messages, k, lastCan, failures>>

(* } while (nextPageToken); then the final summary *)
LoopTest ==
    /\ pc = "while"
    /\ IF loopContinues(nextPageToken)
       THEN pc' = "list" /\ UNCHANGED trace
       ELSE /\ pc' = "done"
            /\ trace' = Append(trace, Event("summary", <<batchCount, totalDeleted>>))
    /\ UNCHANGED <<exVars, ex, nextPageToken, totalDeleted, batchCount, messages, k>>

(* catch (error) { console.error(...) } of deleteOldEmails *)
CatchError ==
    /\ pc \in {"awaitList", "awaitArchive", "awaitDelete"}
    /\ ex.pc = "threw"
    /\ ex' = IdleEx
    /\ pc' = catchTarget
    /\ trace' = Append(trace, Event("error", <<>>))
    /\ UNCHANGED <<exVars, nextPageToken, totalDeleted, batchCount, messages, k>>

(* ------------------------------ the runs ------------------------------- *)
SmallPages == UNION {[1..n -> 0..MaxMsgs] : n \in 1..MaxPages}

(* three one-message pages, then a page big enough to reach the per-minute ceiling *)
LoadPages == <<1, 1, 1, LoadSize>>

(* two pages of two messages, with rate limiting *)
RetryPages == <<2, 2>>

(* the end-to-end scenario: two pages of three messages, no rate limiting *)
ScenarioPages == <<3, 3>>

InitProgram ==
    /\ QUOTA_METRICS = [requestsPerDay |-> 0, requestsPerMin |-> 0, lastMinuteReset |-> 0]
    /\ now = 0
    /\ deleteOnly \in BOOLEAN
    /\ pc = "list"
    /\ ex = IdleEx
    /\ nextPageToken = NoToken
    /\ totalDeleted = 0
    /\ batchCount = 0
    /\ messages = <<>>
    /\ k = 1
    /\ lastCan = TRUE
    /\ failures = 0
    /\ trace = <<>>

Init ==
    /\ InitProgram
    /\ \/ pages \in SmallPages /\ rlLeft = MaxRateLimited
       \/ pages = RetryPages /\ rlLeft = MaxRateLimited
       \/ pages = LoadPages /\ rlLeft = 0
       \/ pages = ScenarioPages /\ rlLeft = 0

Next ==
    \/ CallList \/ ListReturned
    \/ CallArchive \/ ArchiveReturned \/ ArchiveDone
    \/ CallDelete \/ DeleteReturned
    \/ Cooldown \/ LoopTest \/ CatchError
    \/ ExCheck \/ ExQuotaWait \/ ExBackoff
    \/ InvokeOk \/ InvokeRateLimited \/ InvokeRemoteError \/ InvokeWriteError

Spec == Init /\ [][Next]_vars

(* ---------------- the quota tracker called on its own ------------------ *)
(* A fresh process, or one that has run until DayMargin calls below the daily
   ceiling and has just opened a new window. *)
InitQuota ==
    /\ \/ /\ QUOTA_METRICS = [requestsPerDay |-> 0, requestsPerMin |-> 0,
                              lastMinuteReset |-> 0]
          /\ now = 0
       \/ /\ QUOTA_METRICS = [requestsPerDay |-> DAILY_QUOTA - DayMargin,
                              requestsPerMin |-> 1, lastMinuteReset |-> MINUTE_MS]
          /\ now = MINUTE_MS
    /\ deleteOnly = FALSE
    /\ pages = <<0>>
    /\ rlLeft = 0
    /\ pc = "quota"
    /\ ex = IdleEx
    /\ nextPageToken = NoToken
    /\ totalDeleted = 0
    /\ batchCount = 0
    /\ messages = <<>>
    /\ k = 1
    /\ lastCan = TRUE
    /\ failures = 0
    /\ trace = <<>>

(* one call of canMakeRequest() *)
QuotaCall ==
    /\ pc = "quota"
    /\ QUOTA_METRICS.requestsPerMin < PER_MIN_QUOTA + MaxOver
    /\ LET c == canMakeRequest(QUOTA_METRICS, now)
       IN /\ QUOTA_METRICS' = c.metrics
          /\ lastCan' = c.ret
    /\ UNCHANGED <<now, deleteOnly, pages, rlLeft, pc, ex, nextPageToken, totalDeleted,
                   batchCount, messages, k, failures, trace>>

(* time passes between two calls *)
QuotaTick ==
    /\ pc = "quota"
    /\ now < MaxTicks * TickMs
    /\ now' = now + TickMs
    /\ UNCHANGED <<QUOTA_METRICS, deleteOnly, pages, rlLeft, pc, ex, nextPageToken,
                   totalDeleted, batchCount, messages, k, lastCan, failures, trace>>

NextQuota == QuotaCall \/ QuotaTick

SpecQuota == InitQuota /\ [][NextQuota]_vars

(* ---------------- the executor called on its own ----------------------- *)
(* executeWithBackoff is handed one operation after another by a process that
   has already made all but QuotaMargin (or fewer) of the calls the current
   minute allows, so that quota pauses and rate limiting meet in one call. *)
ExecOps == {"list", "archive", "batchDelete"}

ExecArg(op) == IF op = "list" THEN <<NoToken>> ELSE <<MessageId(1, 1)>>

InitExec ==
    /\ \E n \in (PER_MIN_QUOTA - QuotaMargin)..(PER_MIN_QUOTA - 1) :
          QUOTA_METRICS = [requestsPerDay |-> n, requestsPerMin |-> n,
                           lastMinuteReset |-> 0]
    /\ now = 0
    /\ deleteOnly = FALSE
    /\ pages = <<1>>
    /\ rlLeft = MaxRateLimited
    /\ pc = "exec"
    /\ ex = IdleEx
    /\ nextPageToken = NoToken
    /\ totalDeleted = 0
    /\ batchCount = 0
    /\ messages = <<>>
    /\ k = 1
    /\ lastCan = TRUE
    /\ failures = 0
    /\ trace = <<>>

(* executeWithBackoff(operation) is called *)
ExecCall ==
    /\ pc = "exec"
    /\ ex.pc \in {"idle", "returned", "threw"}
    /\ Len(trace) < MaxExecEvents
    /\ \E op \in ExecOps : ex' = StartEx(op, ExecArg(op))
    /\ UNCHANGED <<QUOTA_METRICS, now, deleteOnly, pages, rlLeft, pc, nextPageToken,
                   totalDeleted, batchCount, messages, k, lastCan, failures, trace>>

NextExec ==
    \/ ExecCall
    \/ ExCheck \/ ExQuotaWait \/ ExBackoff
    \/ InvokeOk \/ InvokeRateLimited \/ InvokeRemoteError \/ InvokeWriteError

SpecExec == InitExec /\ [][NextExec]_vars

(* ======================= properties of the program ===================== *)
RemoteOps == {"list", "get", "batchDelete"}

IsRemote(e) == e.op \in RemoteOps

IsBackoffDelay(e) == e.op = "delay" /\ e.arg # <<QUOTA_DELAY>> /\ e.arg # <<BATCH_DELAY>>

(* what the executeWithBackoff call in progress has put on the trace *)
ExEvents == SubSeq(trace, ex.from + 1, Len(trace))

ExInvocations == SelectSeq(ExEvents, IsRemote)

ExBackoffs == SelectSeq(ExEvents, IsBackoffDelay)

AllRateLimited(h) == \A n \in DOMAIN h : h[n] = RateLimitCode

(* C1: with archiving enabled, every id of every bulk-delete call was written to
   its archive file earlier in the run. *)
C1_DeleteOnlyArchived ==
    ~deleteOnly =>
        \A n \in DOMAIN trace :
            trace[n].op = "batchDelete" =>
                \A j \in DOMAIN trace[n].arg :
                    \E m \in 1..(n - 1) :
                        /\ trace[m].op = "write"
                        /\ trace[m].arg = <<trace[n].arg[j]>>

(* C2: a call whose RETRIES invocations were all rate-limited ends by throwing the
   last rate-limit error; it never returns normally. *)
C2_ExhaustionPropagates ==
    (Len(ex.hist) = RETRIES /\ AllRateLimited(ex.hist) /\ ex.pc # "backoff")
        => (ex.pc = "threw" /\ ex.error = RateLimitCode)

(* C3: an operation rate-limited exactly twice and then successful is invoked
   exactly 3 times, its result is returned, and the call slept 1000 ms after the
   first failure and 2000 ms after the second. *)
C3_TwoRateLimitsThenSuccess ==
    (Len(ex.hist) >= 3 /\ SubSeq(ex.hist, 1, 3) = <<RateLimitCode, RateLimitCode, "ok">>)
        => /\ Len(ex.hist) = 3
           /\ Len(ExInvocations) = 3
           /\ ex.pc = "returned"
           /\ ex.result = OpResult(ex.op, ex.arg)
           /\ ex.waits = <<1000, 2000>>
           /\ Len(ExBackoffs) = 2
           /\ ExBackoffs[1].arg = <<1000>> /\ ExBackoffs[2].arg = <<2000>>
           /\ ExInvocations[2].t - ExInvocations[1].t = 1000 + ex.pauses * QUOTA_DELAY
           /\ ExInvocations[3].t - ExInvocations[2].t = 2000

C3_Witness ==
    /\ ex.pc = "returned"
    /\ ex.op = "list"
    /\ ex.hist = <<RateLimitCode, RateLimitCode, "ok">>
    /\ ex.result.kind = "page"

(* C4: a non-rate-limit failure at any attempt is the last thing the call does: the
   same error is thrown, and no wait and no invocation follow it. *)
C4_OtherErrorPropagates ==
    \A n \in DOMAIN ex.hist :
        ex.hist[n] \notin {"ok", RateLimitCode}
            => /\ n = Len(ex.hist)
               /\ ex.pc = "threw"
               /\ ex.error = ex.hist[n]
               /\ Len(ex.waits) = n - 1
               /\ Len(ExInvocations) = n
               /\ Len(ExBackoffs) = n - 1
               /\ ExEvents[Len(ExEvents)].op \in RemoteOps
               /\ ExEvents[Len(ExEvents)].t = now

C4_Witness ==
    /\ ex.pc = "threw"
    /\ ex.hist = <<RemoteErrorCode>>
    /\ Len(ExInvocations) = 1

C4_WitnessLate ==
    /\ ex.pc = "threw"
    /\ ex.hist = <<RateLimitCode, RateLimitCode, IOErrorCode>>

(* C5: once 250 calls have been counted in the current 60-second window, every
   further call in that window returns false; the first call made 60000 ms or more
   after the window start restarts the count at 1, moves the window start to the
   time of the call, and returns true unless the daily ceiling is reached. *)
C5_CeilingAndRollover ==
    [][QUOTA_METRICS'.requestsPerDay = QUOTA_METRICS.requestsPerDay + 1 =>
        /\ (now - QUOTA_METRICS.lastMinuteReset < 60000
              /\ QUOTA_METRICS.requestsPerMin >= 250)
            => /\ lastCan' = FALSE
               /\ QUOTA_METRICS'.lastMinuteReset = QUOTA_METRICS.lastMinuteReset
               /\ QUOTA_METRICS'.requestsPerMin = QUOTA_METRICS.requestsPerMin + 1
        /\ now - QUOTA_METRICS.lastMinuteReset >= 60000
            => /\ QUOTA_METRICS'.requestsPerMin = 1
               /\ QUOTA_METRICS'.lastMinuteReset = now
               /\ (QUOTA_METRICS'.requestsPerDay < 1000000 => lastCan' = TRUE)
               /\ (QUOTA_METRICS'.requestsPerDay >= 1000000 => lastCan' = FALSE)]_vars

(* 251 calls in the first window, then a call in a later window that is allowed *)
C5_Witness ==
    /\ pc = "quota"
    /\ QUOTA_METRICS.requestsPerDay = 252
    /\ QUOTA_METRICS.requestsPerMin = 1
    /\ QUOTA_METRICS.lastMinuteReset >= 60000
    /\ lastCan

(* C6: at most 250 remote operations are invoked in any 60-second interval (here:
   the interval that ends now). *)
C6_PerMinuteRespected ==
    Cardinality({n \in DOMAIN trace :
                    IsRemote(trace[n]) /\ trace[n].t > now - 60000}) <= 250

ListCalls == SelectSeq(trace, LAMBDA e : e.op = "list")

(* The trace only grows, by one or two events a step: an event is examined in the
   states where it is one of the last two, against everything before it. *)
Recent == (IF Len(trace) > 1 THEN Len(trace) - 1 ELSE 1)..Len(trace)

(* C7: a page with zero messages causes no fetch, no file write and no bulk-delete:
   the loop goes from its list call straight to the loop test, and no bulk-delete
   call carries an empty id list. *)
C7_EmptyPageNoCalls ==
    /\ \A n \in Recent : trace[n].op = "batchDelete" => Len(trace[n].arg) > 0
    /\ pc \in {"archive", "awaitArchive", "delete", "awaitDelete", "cooldown"}
          => Len(messages) > 0
    /\ \A n \in Recent :
          (n > 1 /\ trace[n - 1].op = "list" /\ pages[PageOf(trace[n - 1].arg[1])] = 0)
              => \/ trace[n].op \in {"list", "summary", "error"}
                 \/ IsBackoffDelay(trace[n])

C7_Witness ==
    /\ pc = "done"
    /\ failures = 0
    /\ Len(pages) = 2
    /\ pages[1] = 0
    /\ pages[2] > 0
    /\ batchCount = 1

(* C8 as stated: whenever the next list call is about to be issued with a
   continuation token, the last thing that happened is the 20-second cooldown. *)
C8_CooldownAfterTokenPage ==
    (pc = "list" /\ nextPageToken # NoToken)
        => (trace[Len(trace)].op = "delay" /\ trace[Len(trace)].arg = <<20000>>)

(* C8 amended: at the loop test and before the next list call, the last thing that
   happened is the 20-second cooldown when the page had messages, and the page's
   own list call (no pause at all) when it had none. *)
C8_CooldownAfterNonEmptyPage ==
    (pc = "while" \/ (pc = "list" /\ nextPageToken # NoToken))
        => IF Len(messages) > 0
           THEN /\ trace[Len(trace)].op = "delay"
                /\ trace[Len(trace)].arg = <<20000>>
                /\ now - trace[Len(trace)].t = 20000
                /\ trace[Len(trace) - 1].op = "report"
           ELSE /\ trace[Len(trace)].op = "list"
                /\ now = trace[Len(trace)].t

C8_Witness ==
    /\ pc = "list"
    /\ nextPageToken # NoToken
    /\ Len(messages) > 0
    /\ batchCount = 1

C8_WitnessEmpty ==
    /\ pc = "list"
    /\ nextPageToken # NoToken
    /\ Len(messages) = 0
    /\ Len(trace) > 0

NonEmptyPages == {p \in DOMAIN pages : pages[p] > 0}

(* C9 as stated: a failure-free run over N pages reports N batches. *)
C9_BatchesEqualPages ==
    (pc = "done" /\ failures = 0)
        => (batchCount = Len(pages) /\ trace[Len(trace)].arg[1] = Len(pages))

(* C9 amended: a failure-free run over N pages reports as many batches as there
   are pages with at least one message. *)
C9_BatchesEqualNonEmptyPages ==
    (pc = "done" /\ failures = 0)
        => /\ batchCount = Cardinality(NonEmptyPages)
           /\ trace[Len(trace)].op = "summary"
           /\ trace[Len(trace)].arg[1] = Cardinality(NonEmptyPages)

C9_Witness ==
    /\ pc = "done"
    /\ failures = 0
    /\ pages = <<1, 0>>
    /\ batchCount = 1

(* C10: in a failure-free run the pages are listed once each, in order; the run is
   done exactly when the page without a token has been processed, the summary is
   the last thing emitted and follows that page directly; and the run does end. *)
C10_Safe ==
    /\ Len(ListCalls) <= Len(pages)
    /\ \A n \in DOMAIN ListCalls : PageOf(ListCalls[n].arg[1]) = n
    /\ (\E n \in DOMAIN trace : trace[n].op = "summary") <=> pc = "done"
    /\ pc = "done"
          => /\ nextPageToken = NoToken
             /\ Len(ListCalls) = Len(pages)
             /\ trace[Len(trace)].op = "summary"
             /\ IF pages[Len(pages)] = 0
                THEN trace[Len(trace) - 1].op = "list"
                ELSE trace[Len(trace) - 1].op = "delay"
    /\ pc # "done" /\ Len(ListCalls) = Len(pages)
          => pc \in {"awaitList", "archive", "awaitArchive", "delete", "awaitDelete",
                     "cooldown", "while"}

C10_TerminatesIffTokenOmitted ==
    /\ [](failures = 0 => C10_Safe)
    /\ <>(pc = "done" \/ failures > 0)

C10_Witness ==
    /\ pc = "done"
    /\ failures = 0
    /\ Len(pages) = 2
    /\ Len(ListCalls) = 2

LiveSpec == Init /\ [][Next]_vars /\ WF_vars(Next)

(* ------------------------ helpers over the trace ----------------------- *)
Positions(op) == {n \in DOMAIN trace : trace[n].op = op}

Count(op) == Cardinality(Positions(op))

RECURSIVE SumSeq(_)
SumSeq(q) == IF q = <<>> THEN 0 ELSE q[1] + SumSeq(Tail(q))

AllIds == UNION {{MessageId(p, j) : j \in 1..pages[p]} : p \in DOMAIN pages}

(* C11: in delete-only mode no message is ever fetched and no archive file is ever
   written, whatever the pages and the failures. *)
C11_DeleteOnlyNoArchive ==
    deleteOnly => \A n \in DOMAIN trace : trace[n].op \notin {"get", "write"}

(* a delete-only run that was rate-limited and still deleted two pages *)
C11_Witness ==
    /\ deleteOnly
    /\ pc = "done"
    /\ failures > 0
    /\ batchCount = 2
    /\ totalDeleted > 2

(* C12: a failure-free archiving run ends with totalDeleted equal to the number of
   messages of all pages, batchCount equal to the number of pages that were
   processed (bulk-deleted), and exactly one archive file per listed message id. *)
C12_FailureFreeTotals ==
    (pc = "done" /\ failures = 0 /\ ~deleteOnly)
        => /\ totalDeleted = SumSeq(pages)
           /\ batchCount = Count("batchDelete")
           /\ batchCount = Cardinality(NonEmptyPages)
           /\ {trace[n].arg[1] : n \in Positions("write")} = AllIds
           /\ Count("write") = SumSeq(pages)
           /\ trace[Len(trace)].op = "summary"
           /\ trace[Len(trace)].arg = <<batchCount, totalDeleted>>

(* 2 pages of 3 messages: 2 batches, 6 messages, 6 files *)
C12_Witness ==
    /\ pc = "done"
    /\ failures = 0
    /\ ~deleteOnly
    /\ pages = <<3, 3>>
    /\ batchCount = 2
    /\ totalDeleted = 6
    /\ Count("write") = 6
    /\ {trace[n].arg[1] : n \in Positions("write")} = {1, 2, 3, 1001, 1002, 1003}

(* failures that executeWithBackoff does not absorb: all failures but the
   rate-limited ones, each of which is followed by its backoff wait *)
Escaped ==
    failures - Cardinality({n \in DOMAIN trace : IsBackoffDelay(trace[n])})
             - (IF ex.pc = "backoff" THEN 1 ELSE 0)

(* C13: an error that escapes the loop is reported exactly once and ends the run:
   the report is the last thing that happens, no summary is emitted, and nothing
   is left to propagate to the caller. *)
C13_ErrorReportedOnceAndStops ==
    /\ Escaped \in {0, 1}
    /\ Escaped = 1
          => \/ /\ ex.pc = "threw"
                /\ pc \in {"awaitList", "awaitArchive", "awaitDelete"}
                /\ Count("error") = 0
                /\ trace[Len(trace)].op \in RemoteOps
             \/ pc = "error"
    /\ Count("error") > 0 => pc = "error"
    /\ pc = "error"
          => /\ Count("error") = 1
             /\ trace[Len(trace)].op = "error"
             /\ trace[Len(trace)].t = now
             /\ Count("summary") = 0
             /\ ex = IdleEx

(* an archive write error on the second page, after a first page was deleted *)
C13_Witness ==
    /\ pc = "error"
    /\ Escaped = 1
    /\ batchCount = 1
    /\ trace[Len(trace) - 1].op = "get"
    /\ Count("write") < Count("get")

(* position n is a bulk-delete call that completed: the report follows at once *)
DeleteSucceeded(n) ==
    /\ trace[n].op = "batchDelete"
    /\ n < Len(trace)
    /\ trace[n + 1].op = "report"

(* the number of messages of the bulk-delete calls that completed among the
   first n events *)
RECURSIVE DeletedUpTo(_)
DeletedUpTo(n) ==
    IF n = 0 THEN 0
    ELSE DeletedUpTo(n - 1) + (IF DeleteSucceeded(n) THEN Len(trace[n].arg) ELSE 0)

(* C14: only pages whose bulk-delete call completed successfully are counted and
   reported: every report follows a bulk-delete call directly, and at the end of
   the run the totals are those of the successful bulk-delete calls. *)
C14_OnlySuccessfulDeletesCounted ==
    /\ \A n \in Positions("report") : n > 1 /\ trace[n - 1].op = "batchDelete"
    /\ pc \in {"done", "error"}
          => /\ batchCount = Cardinality({n \in DOMAIN trace : DeleteSucceeded(n)})
             /\ totalDeleted = DeletedUpTo(Len(trace))

(* the page an id was listed on *)
PageOfId(id) == (id - 1) \div BATCH_SIZE + 1

(* C15: a bulk-delete call carries exactly the ids of one non-empty page, in page
   order; it comes after every fetch and file write of that page, and when
   archiving after at least one fetch of each of its ids; a page gets a second
   bulk-delete call only as the retry of a rate-limited one, so a page processed
   without failure gets exactly one. Ids are never deleted one by one. *)
C15_OneBulkDeletePerPage ==
    /\ \A n \in Recent :
          trace[n].op = "batchDelete" =>
              /\ Len(trace[n].arg) > 0
              /\ LET p == PageOfId(trace[n].arg[1])
                 IN /\ p \in DOMAIN pages
                    /\ pages[p] > 0
                    /\ trace[n].arg = PageIds(p)
              /\ \A m \in 1..(n - 1) :
                    (trace[m].op = "batchDelete" /\ trace[m].arg = trace[n].arg)
                        => IsBackoffDelay(trace[m + 1])
              /\ ~deleteOnly
                    => \A j \in DOMAIN trace[n].arg :
                          \E m \in 1..(n - 1) :
                             trace[m].op = "get" /\ trace[m].arg = <<trace[n].arg[j]>>
    /\ \A n \in Recent :
          trace[n].op \in {"get", "write"} =>
              \A m \in 1..(n - 1) :
                  trace[m].op = "batchDelete"
                      => PageOfId(trace[m].arg[1]) # PageOfId(trace[n].arg[1])
    /\ (failures = 0 /\ pc = "done") => Count("batchDelete") = Cardinality(NonEmptyPages)

C15_Witness ==
    /\ pc = "done"
    /\ failures = 0
    /\ ~deleteOnly
    /\ pages = <<2, 2>>
    /\ Count("batchDelete") = 2
    /\ trace[Len(trace) - 3].arg = <<1001, 1002>>

(* the list call before position n, 0 when there is none *)
PrevList(n) ==
    LET before == {m \in Positions("list") : m < n}
    IN IF before = {} THEN 0
       ELSE CHOOSE m \in before : \A x \in before : x <= m

(* the continuation token the provider returns for a list request *)
TokenAfter(e) == ListResponse(e.arg[1]).nextPageToken

(* C16: the first list call carries no token; a later one is either the retry of
   a rate-limited list call, with the same token, or carries the token returned
   with the page before it, which was present; an empty page with a token is
   followed at once by the list call for that token. *)
C16_TokenChain ==
    /\ \A n \in Recent :
          trace[n].op = "list" =>
              LET m == PrevList(n)
              IN IF m = 0 THEN trace[n].arg = <<NoToken>>
                 ELSE IF IsBackoffDelay(trace[m + 1]) THEN trace[n].arg = trace[m].arg
                 ELSE /\ TokenAfter(trace[m]) # NoToken
                      /\ trace[n].arg = <<TokenAfter(trace[m])>>
    /\ \A n \in Recent :
          (/\ n > 1
           /\ trace[n - 1].op = "list"
           /\ pages[PageOf(trace[n - 1].arg[1])] = 0
           /\ TokenAfter(trace[n - 1]) # NoToken
           /\ ~IsBackoffDelay(trace[n])
           /\ trace[n].op # "error")
              => /\ trace[n].op = "list"
                 /\ trace[n].arg = <<TokenAfter(trace[n - 1])>>

(* an empty first page with a token, then the list call with that token *)
C16_Witness ==
    /\ pc = "done"
    /\ failures = 0
    /\ pages = <<0, 1>>
    /\ Count("list") = 2
    /\ trace[1].arg = <<NoToken>>
    /\ trace[2].op = "list"
    /\ trace[2].arg = <<2>>

(* C17: each invocation of a remote operation, retries included, follows one
   canMakeRequest call of its own: the daily counter is the number of remote
   invocations so far, plus one while an invocation is checked but not yet made. *)
C17_OneQuotaCallPerInvocation ==
    QUOTA_METRICS.requestsPerDay
        = Cardinality({n \in DOMAIN trace : IsRemote(trace[n])})
          + (IF ex.pc \in {"invoke", "quotaWait"} THEN 1 ELSE 0)

(* a retried call, and a call waiting out the quota pause *)
C17_Witness ==
    /\ ex.pc = "returned"
    /\ ex.hist = <<RateLimitCode, RateLimitCode, "ok">>
    /\ QUOTA_METRICS.requestsPerDay = 5

C17_WitnessPause ==
    /\ ex.pc = "quotaWait"
    /\ QUOTA_METRICS.requestsPerDay > PER_MIN_QUOTA

(* C18: a false canMakeRequest only puts one 60000 ms pause in front of the
   invocation of the same attempt. The attempt index counts invocations, not
   pauses: attempts 0..i-1 have each invoked the operation once, attempt i has
   invoked it once or not yet, and a paused call still gets RETRIES invocations. *)
IsQuotaPause(e) == e.op = "delay" /\ e.arg = <<QUOTA_DELAY>>

Attempted ==
    IF ex.pc \in {"backoff", "threw"} \/ (ex.pc = "returned" /\ ex.i < RETRIES)
    THEN ex.i + 1
    ELSE ex.i

C18_PauseKeepsAttempt ==
    /\ Len(ExInvocations) = Attempted
    /\ Len(ex.hist) = Attempted
    /\ Attempted <= RETRIES
    /\ Len(SelectSeq(ExEvents, IsQuotaPause)) = ex.pauses
    /\ (ex.pc = "quotaWait") => ~lastCan
    /\ \A n \in DOMAIN ExEvents :
          IsQuotaPause(ExEvents[n]) =>
              IF n = Len(ExEvents)
              THEN ex.pc = "invoke"
              ELSE /\ IsRemote(ExEvents[n + 1])
                   /\ ExEvents[n + 1].t = ExEvents[n].t + QUOTA_DELAY

(* a call paused by the quota and rate-limited on every attempt *)
C18_Witness ==
    /\ ex.pauses >= 1
    /\ IsQuotaPause(ExEvents[1])
    /\ Len(ExInvocations) = RETRIES
    /\ AllRateLimited(ex.hist)
    /\ ex.pc = "returned"

(* C19: every canMakeRequest call adds exactly 1 to the daily counter and leaves
   the per-minute counter at its value (0 if the window was just restarted) plus
   1, whatever it returns; the daily counter never decreases; the call that
   brings a counter to its ceiling is counted and returns false. *)
C19_Call ==
    LET q == QUOTA_METRICS
        r == QUOTA_METRICS'
        restarted == r.lastMinuteReset # q.lastMinuteReset
    IN /\ r.requestsPerDay >= q.requestsPerDay
       /\ (r # q \/ lastCan' # lastCan) =>
             /\ r.requestsPerDay = q.requestsPerDay + 1
             /\ r.requestsPerMin = (IF restarted THEN 0 ELSE q.requestsPerMin) + 1
             /\ restarted => r.lastMinuteReset = now
             /\ (r.requestsPerDay = DAILY_QUOTA \/ r.requestsPerMin = PER_MIN_QUOTA)
                   => lastCan' = FALSE
             /\ (r.requestsPerDay < DAILY_QUOTA /\ r.requestsPerMin < PER_MIN_QUOTA)
                   => lastCan' = TRUE

C19_CountedBeforeChecked == [][C19_Call]_vars

(* the 250th call of a window has been counted and refused *)
C19_Witness ==
    /\ pc = "quota"
    /\ QUOTA_METRICS.requestsPerMin = PER_MIN_QUOTA
    /\ QUOTA_METRICS.requestsPerDay = PER_MIN_QUOTA
    /\ ~lastCan

(* the millionth call of the day has been counted and refused in a fresh window *)
C19_WitnessDay ==
    /\ pc = "quota"
    /\ QUOTA_METRICS.requestsPerDay = DAILY_QUOTA
    /\ QUOTA_METRICS.requestsPerMin < PER_MIN_QUOTA
    /\ ~lastCan

====
